---- MODULE Spec2Model ----
(***************************************************************************)
(* The ORM-backed CRUD router of crouton (SQLAlchemyCRUDRouter) and its    *)
(* companion client: the six generated route handlers, the query-parameter *)
(* filter resolver and the commit helper, over one table                   *)
(*     items(id INTEGER PRIMARY KEY, name VARCHAR UNIQUE NOT NULL,         *)
(*           qty INTEGER DEFAULT 0)                                        *)
(* A handler runs on a session of its own and is a sequence of storage     *)
(* calls (query, get, add, delete, commit, rollback, refresh); every       *)
(* storage call is one step, taken together with the handler's own code    *)
(* that leads up to it, and the steps of two requests interleave.  A       *)
(* session reads the committed table; the changes of its ORM objects reach *)
(* the table within its commit, and the bulk DELETE of delete-all holds    *)
(* the table for its session from the statement to the commit.  Strings    *)
(* are sequences of one-character strings, so that int(value),             *)
(* str.lower() and the substring test of the commit helper are computed    *)
(* and not assumed.                                                        *)
(***************************************************************************)
EXTENDS Integers, Sequences, FiniteSets, TLC

\* ------------------------------------------------------------- bounds
\* Primary keys a request names range over 1..MaxId; a create is taken up
\* while the table's next key is at most MaxId.
MaxId == 3
\* A list request carries at most MaxParams raw query pairs (SpecList).
MaxParams == 3
\* The same, for the specifications that are about writes.
MaxFaultParams == 1
\* The filters dict of a client's get holds at most MaxClientParams keys.
MaxClientParams == 1
\* The keys of requests that run two at a time (Spec, SpecUpdate).
MaxConcId == 2

\* ------------------------------------------------- program constants
\* pagination.get("skip", 0)
DefaultSkip == 0
\* pagination.get("limit", 100)
DefaultLimit == 100

\* ------------------------------------------------------ the resource
Names == {<<"a">>, <<"b">>, <<"c">>}

\* db_model.__table__.columns, with column.type.python_type
Columns == {"id", "name", "qty"}
ColumnType == [id |-> "int", name |-> "str", qty |-> "int"]
\* self._pk
Pk == "id"
\* excluded_params
ExcludedParams == {"skip", "limit"}

\* A payload or filter mapping with no key.
NoVals == [c \in {} |-> 0]

\* What the nullable column qty holds: NULL, or one integer.
Null == <<>>
Some(v) == <<v>>
\* The value v of field f as the table holds it.
Cell(f, v) == IF f = "qty" THEN Some(v) ELSE v

\* The empty table.
EmptyDb == [i \in {} |-> [name |-> <<>>, qty |-> Null]]

\* The record the ORM loads for primary key i.
RowOf(d, i) == [id |-> i, name |-> d[i].name, qty |-> d[i].qty]

\* ------------------------------------------------------------ strings
\* The decimal digits int() takes, a row of 0..9 for each script: ASCII's, and
\* of the other scripts of Unicode those a string of this module can hold
\* (Extended Arabic-Indic, NKo, Bengali, Gujarati, Tamil, Kannada, Sinhala
\* Lith, Lao, Myanmar Shan, Khmer, New Tai Lue, Tai Tham Hora, Tai Tham Tham,
\* Sundanese, Saurashtra, Javanese, Myanmar Tai Laing, Meetei Mayek).
DigitRows ==
    <<
      <<"0", "1", "2", "3", "4", "5", "6", "7", "8", "9">>,
      <<"۰", "۱", "۲", "۳", "۴", "۵", "۶", "۷", "۸", "۹">>,
      <<"߀", "߁", "߂", "߃", "߄", "߅", "߆", "߇", "߈", "߉">>,
      <<"০", "১", "২", "৩", "৪", "৫", "৬", "৭", "৮", "৯">>,
      <<"૦", "૧", "૨", "૩", "૪", "૫", "૬", "૭", "૮", "૯">>,
      <<"௦", "௧", "௨", "௩", "௪", "௫", "௬", "௭", "௮", "௯">>,
      <<"೦", "೧", "೨", "೩", "೪", "೫", "೬", "೭", "೮", "೯">>,
      <<"෦", "෧", "෨", "෩", "෪", "෫", "෬", "෭", "෮", "෯">>,
      <<"໐", "໑", "໒", "໓", "໔", "໕", "໖", "໗", "໘", "໙">>,
      <<"႐", "႑", "႒", "႓", "႔", "႕", "႖", "႗", "႘", "႙">>,
      <<"០", "១", "២", "៣", "៤", "៥", "៦", "៧", "៨", "៩">>,
      <<"᧐", "᧑", "᧒", "᧓", "᧔", "᧕", "᧖", "᧗", "᧘", "᧙">>,
      <<"᪀", "᪁", "᪂", "᪃", "᪄", "᪅", "᪆", "᪇", "᪈", "᪉">>,
      <<"᪐", "᪑", "᪒", "᪓", "᪔", "᪕", "᪖", "᪗", "᪘", "᪙">>,
      <<"᮰", "᮱", "᮲", "᮳", "᮴", "᮵", "᮶", "᮷", "᮸", "᮹">>,
      <<"꣐", "꣑", "꣒", "꣓", "꣔", "꣕", "꣖", "꣗", "꣘", "꣙">>,
      <<"꧐", "꧑", "꧒", "꧓", "꧔", "꧕", "꧖", "꧗", "꧘", "꧙">>,
      <<"꧰", "꧱", "꧲", "꧳", "꧴", "꧵", "꧶", "꧷", "꧸", "꧹">>,
      <<"꯰", "꯱", "꯲", "꯳", "꯴", "꯵", "꯶", "꯷", "꯸", "꯹">>
    >>

Digits == {DigitRows[r][k] : r \in 1..Len(DigitRows), k \in 1..10}

\* The value of decimal digit c.
DigitVal(c) ==
    (CHOOSE k \in 1..10 : \E r \in 1..Len(DigitRows) : DigitRows[r][k] = c) - 1

\* The ASCII digit of value n.
DigitChar(n) == DigitRows[1][n + 1]

\* str(n), n >= 0
RECURSIVE Str(_)
Str(n) == IF n < 10 THEN <<DigitChar(n)>> ELSE Str(n \div 10) \o <<DigitChar(n % 10)>>

\* The white space int() drops around a numeral: ASCII's space, \t, \n,
\* \r, \f and vertical tab 0B (not the separators 1C..1F, which
\* str.isspace() counts as white space and int() refuses), and of the other
\* white space of Unicode what a string of this module can hold (next line
\* 85, no-break space A0, ogham space mark 1680).
Blanks ==
    {" ", "\t", "\n", "\r", "\f", "", "", " ", " "}

RECURSIVE LStrip(_)
LStrip(s) == IF s # <<>> /\ Head(s) \in Blanks THEN LStrip(Tail(s)) ELSE s
RECURSIVE RStrip(_)
RStrip(s) ==
    IF s # <<>> /\ s[Len(s)] \in Blanks THEN RStrip(SubSeq(s, 1, Len(s) - 1)) ELSE s
Strip(s) == RStrip(LStrip(s))

\* A numeral without its sign.
Unsigned(s) == IF s # <<>> /\ Head(s) \in {"+", "-"} THEN Tail(s) ELSE s

\* Decimal digits, with single underscores between digits.
IsDigitRun(u) ==
    /\ Len(u) > 0
    /\ u[1] \in Digits /\ u[Len(u)] \in Digits
    /\ \A i \in 1..Len(u) : u[i] \in Digits \cup {"_"}
    /\ \A i \in 1..(Len(u) - 1) : ~(u[i] = "_" /\ u[i + 1] = "_")

\* int(s) returns (it raises ValueError otherwise): white space around, an
\* optional sign, decimal digits (of any script, mixed at will) with single
\* underscores between them.
IsNumeral(s) == IsDigitRun(Unsigned(Strip(s)))

RECURSIVE DigitsValue(_)
DigitsValue(u) ==
    IF Len(u) = 0 THEN 0
    ELSE IF u[Len(u)] = "_" THEN DigitsValue(SubSeq(u, 1, Len(u) - 1))
    ELSE 10 * DigitsValue(SubSeq(u, 1, Len(u) - 1)) + DigitVal(u[Len(u)])

\* int(s), for a numeral s
IntOf(s) ==
    LET b == Strip(s) IN
    IF b # <<>> /\ Head(b) = "-" THEN 0 - DigitsValue(Unsigned(b))
    ELSE DigitsValue(Unsigned(b))

\* str.lower(), one character (of the ASCII letters).
Capitals ==
    <<"A", "B", "C", "D", "E", "F", "G", "H", "I", "J", "K", "L", "M",
      "N", "O", "P", "Q", "R", "S", "T", "U", "V", "W", "X", "Y", "Z">>
Smalls ==
    <<"a", "b", "c", "d", "e", "f", "g", "h", "i", "j", "k", "l", "m",
      "n", "o", "p", "q", "r", "s", "t", "u", "v", "w", "x", "y", "z">>

LowerChar(c) ==
    IF \E i \in 1..Len(Capitals) : Capitals[i] = c
    THEN Smalls[CHOOSE i \in 1..Len(Capitals) : Capitals[i] = c]
    ELSE c

Lower(s) == [i \in 1..Len(s) |-> LowerChar(s[i])]

\* sub in s
Contains(sub, s) ==
    \E i \in 1..(Len(s) - Len(sub) + 1) : SubSeq(s, i, i + Len(sub) - 1) = sub

\* ------------------------------------------- the storage driver's texts
\* str(exc.orig) of an IntegrityError, as two drivers word it.  A violation
\* is notnull (name), pk (a primary key already there) or unique (a name
\* already there); value is the offending value as the driver prints it.
Drivers == {"sqlite", "mysql"}

\* UNIQUE constraint failed: items.
SqliteUniquePrefix ==
    <<"U", "N", "I", "Q", "U", "E", " ", "c", "o", "n", "s", "t",
      "r", "a", "i", "n", "t", " ", "f", "a", "i", "l", "e", "d",
      ":", " ", "i", "t", "e", "m", "s", ".">>

\* NOT NULL constraint failed: items.name
SqliteNotNull ==
    <<"N", "O", "T", " ", "N", "U", "L", "L", " ", "c", "o", "n",
      "s", "t", "r", "a", "i", "n", "t", " ", "f", "a", "i", "l",
      "e", "d", ":", " ", "i", "t", "e", "m", "s", ".", "n", "a",
      "m", "e">>

\* Duplicate entry '
MysqlDuplicate ==
    <<"D", "u", "p", "l", "i", "c", "a", "t", "e", " ", "e", "n",
      "t", "r", "y", " ", "'">>

\* ' for key 'items.
MysqlForKey ==
    <<"'", " ", "f", "o", "r", " ", "k", "e", "y", " ", "'", "i",
      "t", "e", "m", "s", ".">>

\* Column 'name' cannot be null
MysqlNotNull ==
    <<"C", "o", "l", "u", "m", "n", " ", "'", "n", "a", "m", "e",
      "'", " ", "c", "a", "n", "n", "o", "t", " ", "b", "e", " ",
      "n", "u", "l", "l">>

OrigText(exc) ==
    IF exc.drv = "sqlite"
    THEN CASE exc.violation = "notnull" -> SqliteNotNull
           [] exc.violation = "pk" -> SqliteUniquePrefix \o <<"i", "d">>
           [] OTHER -> SqliteUniquePrefix \o <<"n", "a", "m", "e">>
    ELSE CASE exc.violation = "notnull" -> MysqlNotNull
           [] exc.violation = "pk" ->
                MysqlDuplicate \o exc.value \o MysqlForKey
                    \o <<"P", "R", "I", "M", "A", "R", "Y", "'">>
           [] OTHER ->
                MysqlDuplicate \o exc.value \o MysqlForKey
                    \o <<"n", "a", "m", "e", "'">>

\* ------------------------------------------------------------ helpers
Max(S) == CHOOSE x \in S : \A y \in S : y <= x
Min(S) == CHOOSE x \in S : \A y \in S : x <= y

\* The elements of a finite set of integers, ascending.
RECURSIVE SortedSeq(_)
SortedSeq(S) ==
    IF S = {} THEN <<>> ELSE <<Min(S)>> \o SortedSeq(S \ {Min(S)})

Restrict(f, S) == [k \in DOMAIN f \cap S |-> f[k]]

\* ------------------------------------------ the session and the table
\* The session's unit of work: the change a handler has made and not yet
\* committed.  kind is none, insert, update, delete or delete_all.  id is
\* the primary key of the object the handler holds (0: not yet given one),
\* vals the column values an INSERT or UPDATE carries, nulls the columns an
\* UPDATE sets to NULL, gone the records the bulk DELETE removed.
NoChange == [kind |-> "none", id |-> 0, vals |-> NoVals, nulls |-> {}, gone |-> {}]

\* The exception a storage call raises; cls none: it returns.  violation is
\* the constraint an IntegrityError is about (stale and locked: what a
\* SQLAlchemyError of the store itself is about), value the offending value
\* as the driver prints it.
NoExc == [cls |-> "none", violation |-> "none", drv |-> "none", value |-> <<>>]

\* The exception of a statement the store refuses because another session's
\* transaction holds the table.
LockedExc == [NoExc EXCEPT !.cls = "SQLAlchemyError", !.violation = "locked"]

\* The key an INSERT stores: the given one, else the table's next rowid.
NextPk(d) == IF DOMAIN d = {} THEN 1 ELSE Max(DOMAIN d) + 1
InsertPk(d, vals) == IF Pk \in DOMAIN vals THEN vals[Pk] ELSE NextPk(d)

\* The key of row ch.id after an UPDATE.
UpdatedPk(ch) == IF Pk \in DOMAIN ch.vals THEN ch.vals[Pk] ELSE ch.id

\* The row an UPDATE of row ch.id writes: the columns the statement sets,
\* over the row as the table holds it.
UpdatedCell(d, ch, f) ==
    IF f \in ch.nulls THEN Null
    ELSE IF f \in DOMAIN ch.vals THEN Cell(f, ch.vals[f])
    ELSE d[ch.id][f]

UpdatedRow(d, ch) ==
    [name |-> UpdatedCell(d, ch, "name"), qty |-> UpdatedCell(d, ch, "qty")]

\* The UPDATE or DELETE of change ch finds no row: the record was removed
\* after the session loaded it.
Stale(d, ch) ==
    /\ ch.kind \in {"update", "delete"}
    /\ ch.id \notin DOMAIN d

\* The flush of an update emits an UPDATE only for attributes whose value
\* differs from the loaded one.
EmitsUpdate(ch) == ch.kind = "update" /\ (DOMAIN ch.vals # {} \/ ch.nulls # {})

\* The constraints of items the flush of change ch violates.  An UPDATE that
\* finds no row checks none.
Violations(d, ch) ==
    CASE ch.kind = "insert" ->
            (IF "name" \notin DOMAIN ch.vals THEN {"notnull"}
             ELSE IF \E j \in DOMAIN d : d[j].name = ch.vals["name"]
                  THEN {"unique"} ELSE {})
            \cup (IF InsertPk(d, ch.vals) \in DOMAIN d THEN {"pk"} ELSE {})
      [] ch.kind = "update" /\ ch.id \in DOMAIN d ->
            (IF "name" \in ch.nulls THEN {"notnull"} ELSE {})
            \cup (IF /\ "name" \in DOMAIN ch.vals
                     /\ \E j \in DOMAIN d \ {ch.id} : d[j].name = ch.vals["name"]
                  THEN {"unique"} ELSE {})
            \cup (IF UpdatedPk(ch) \in DOMAIN d \ {ch.id} THEN {"pk"} ELSE {})
      [] OTHER -> {}

\* The violation the driver reports: NOT NULL is checked first, then the
\* primary key, then the unique index.
Reported(V) ==
    IF "notnull" \in V THEN "notnull" ELSE IF "pk" \in V THEN "pk" ELSE "unique"

\* The value the driver names in its text.
Offending(d, ch, violation) ==
    CASE violation = "pk" ->
            Str(IF ch.kind = "insert" THEN InsertPk(d, ch.vals) ELSE UpdatedPk(ch))
      [] violation = "unique" -> ch.vals["name"]
      [] OTHER -> <<>>

\* The table after change ch is flushed and committed (no violation).  An
\* UPDATE or DELETE of a row that is gone writes nothing.
Flushed(d, ch) ==
    CASE ch.kind = "insert" ->
            LET k == InsertPk(d, ch.vals) IN
            [i \in DOMAIN d \cup {k} |->
                IF i = k
                THEN [name |-> ch.vals["name"],
                      qty |-> IF "qty" \in DOMAIN ch.vals
                              THEN Some(ch.vals["qty"]) ELSE Some(0)]
                ELSE d[i]]
      [] ch.kind = "update" /\ ch.id \in DOMAIN d /\ EmitsUpdate(ch) ->
            [i \in (DOMAIN d \ {ch.id}) \cup {UpdatedPk(ch)} |->
                IF i = UpdatedPk(ch) THEN UpdatedRow(d, ch) ELSE d[i]]
      [] ch.kind = "delete" -> [i \in DOMAIN d \ {ch.id} |-> d[i]]
      [] ch.kind = "delete_all" -> [i \in DOMAIN d \ ch.gone |-> d[i]]
      [] OTHER -> d

\* What the session holds after a commit: nothing pending, and the identity
\* of the object the handler goes on with.
Committed(d, ch) ==
    [NoChange EXCEPT !.id = CASE ch.kind = "insert" -> InsertPk(d, ch.vals)
                             [] ch.kind = "update" /\ EmitsUpdate(ch) -> UpdatedPk(ch)
                             [] OTHER -> ch.id]

\* The flush of change ch emits a statement that writes.
Writes(ch) == ch.kind \in {"insert", "delete"} \/ EmitsUpdate(ch)

\* db.commit(): what it raises.  A storage fault at the commit is a plain
\* SQLAlchemyError.  A statement that writes while another session's
\* transaction holds the table (locked) is refused by the store with an
\* OperationalError (a SQLAlchemyError; sqlite: database is locked).  A
\* violated constraint is an IntegrityError whose orig is the driver's text;
\* an UPDATE that matched no row is a StaleDataError (a SQLAlchemyError)
\* when the driver counts matched rows (sane), and passes otherwise.  A
\* DELETE that matched no row passes.
CommitRaises(d, ch, fault, drv, sane, locked) ==
    IF "commit" \in fault
    THEN [NoExc EXCEPT !.cls = "SQLAlchemyError"]
    ELSE IF locked /\ Writes(ch)
    THEN LockedExc
    ELSE IF Violations(d, ch) # {}
    THEN [cls |-> "IntegrityError",
          violation |-> Reported(Violations(d, ch)),
          drv |-> drv,
          value |-> Offending(d, ch, Reported(Violations(d, ch)))]
    ELSE IF EmitsUpdate(ch) /\ Stale(d, ch) /\ sane
    THEN [NoExc EXCEPT !.cls = "SQLAlchemyError", !.violation = "stale"]
    ELSE NoExc

\* ------------------------------------------------------- _db_commit
\* The status of the HTTPException _db_commit raises for exception exc of
\* db.commit(): for an IntegrityError 409 when "unique" is in
\* str(exc.orig).lower(), else 422; for any other SQLAlchemyError 500.
CommitStatus(exc) ==
    IF exc.cls = "IntegrityError"
    THEN (IF Contains(<<"u", "n", "i", "q", "u", "e">>, Lower(OrigText(exc)))
          THEN 409 ELSE 422)
    ELSE 500

\* A session on which db.rollback() was never called.
NotRolledBack(ch) == ch
\* db.rollback(): the pending change is dropped.
RolledBack(ch) == NoChange

\* ------------------------------------------------- outcomes of a request
\* kind: pending (the handler is under way), return (it returned),
\* HTTPException (a typed error of the given status) or SQLAlchemyError (a
\* storage exception left the handler).  ops is the trace of the storage
\* calls the request made, err the exception its db.commit() raised (or,
\* of a delete-all, the exception of the DELETE the store refused).
Pending(ops, err) ==
    [kind |-> "pending", status |-> 0, body |-> <<>>, ops |-> ops,
     filters |-> NoVals, err |-> err]

Returned(status, body, ops) ==
    [kind |-> "return", status |-> status, body |-> body, ops |-> ops,
     filters |-> NoVals, err |-> NoExc]

Raised(status, ops, err) ==
    [kind |-> "HTTPException", status |-> status, body |-> <<>>, ops |-> ops,
     filters |-> NoVals, err |-> err]

Escaped(ops, err) ==
    [kind |-> "SQLAlchemyError", status |-> 0, body |-> <<>>, ops |-> ops,
     filters |-> NoVals, err |-> err]

\* ------------------------------------------------ the query parameters
\* dict(pairs) from the i-th pair on: a new key is appended, a key already
\* there keeps its place and takes the new value.
RECURSIVE DictFrom(_, _, _)
DictFrom(raw, i, acc) ==
    IF i > Len(raw) THEN acc
    ELSE IF \E n \in 1..Len(acc) : acc[n][1] = raw[i][1]
         THEN DictFrom(raw, i + 1,
                       [n \in 1..Len(acc) |->
                           IF acc[n][1] = raw[i][1] THEN raw[i] ELSE acc[n]])
    ELSE DictFrom(raw, i + 1, Append(acc, raw[i]))

\* query_params(request): dict(request.query_params).  raw is the request's
\* sequence of <<key, value>> pairs.
QueryParams(raw) == DictFrom(raw, 1, <<>>)

HasKey(qp, key) == \E i \in 1..Len(qp) : qp[i][1] = key
ValueOf(qp, key) == qp[CHOOSE i \in 1..Len(qp) : qp[i][1] = key][2]

\* self.pagination: the skip and limit the request gave, as integers.  A
\* request whose skip is no integer >= 0 or whose limit is no integer >= 1
\* is turned down before the handler runs (PaginationOk).
PaginationOk(qp) ==
    /\ HasKey(qp, "skip") =>
          IsNumeral(ValueOf(qp, "skip")) /\ IntOf(ValueOf(qp, "skip")) >= 0
    /\ HasKey(qp, "limit") =>
          IsNumeral(ValueOf(qp, "limit")) /\ IntOf(ValueOf(qp, "limit")) >= 1

Pagination(qp) ==
    [k \in {key \in ExcludedParams : HasKey(qp, key)} |-> IntOf(ValueOf(qp, k))]

\* dict.get(key, default)
Get(dict, key, default) == IF key \in DOMAIN dict THEN dict[key] ELSE default

\* column_type(value) raises ValueError.
CoerceFails(key, value) == ColumnType[key] = "int" /\ ~IsNumeral(value)
\* column_type(value)
Coerced(key, value) == IF ColumnType[key] = "int" THEN IntOf(value) ELSE value

PutFilter(filters, key, parsed) ==
    [k \in DOMAIN filters \cup {key} |-> IF k = key THEN parsed ELSE filters[k]]

\* _parse_query_params with the else branch left out: an unknown key is
\* passed over.
RECURSIVE ParseLenientFrom(_, _, _)
ParseLenientFrom(qp, i, filters) ==
    IF i > Len(qp) THEN [status |-> 0, filters |-> filters]
    ELSE IF qp[i][1] \in ExcludedParams \/ qp[i][1] \notin Columns
         THEN ParseLenientFrom(qp, i + 1, filters)
    ELSE IF CoerceFails(qp[i][1], qp[i][2]) THEN [status |-> 422, filters |-> NoVals]
    ELSE ParseLenientFrom(qp, i + 1,
                          PutFilter(filters, qp[i][1], Coerced(qp[i][1], qp[i][2])))

ParseQueryParamsLenient(qp) == ParseLenientFrom(qp, 1, NoVals)

\* _parse_query_params without excluded_params: skip and limit are checked
\* like any key.
RECURSIVE ParseNoExcludeFrom(_, _, _)
ParseNoExcludeFrom(qp, i, filters) ==
    IF i > Len(qp) THEN [status |-> 0, filters |-> filters]
    ELSE IF qp[i][1] \in Columns
         THEN IF CoerceFails(qp[i][1], qp[i][2])
              THEN [status |-> 422, filters |-> NoVals]
              ELSE ParseNoExcludeFrom(qp, i + 1,
                       PutFilter(filters, qp[i][1], Coerced(qp[i][1], qp[i][2])))
    ELSE [status |-> 400, filters |-> NoVals]

ParseQueryParamsNoExclude(qp) == ParseNoExcludeFrom(qp, 1, NoVals)

\* The loop of _parse_query_params from the i-th item on.  status 0: the
\* filters are returned; 400 and 422: the HTTPException raised.
RECURSIVE ParseFrom(_, _, _)
ParseFrom(qp, i, filters) ==
    IF i > Len(qp) THEN [status |-> 0, filters |-> filters]
    ELSE IF qp[i][1] \in ExcludedParams THEN ParseFrom(qp, i + 1, filters)
    ELSE IF qp[i][1] \in Columns
         THEN IF CoerceFails(qp[i][1], qp[i][2])
              THEN [status |-> 422, filters |-> NoVals]
              ELSE ParseFrom(qp, i + 1,
                             PutFilter(filters, qp[i][1], Coerced(qp[i][1], qp[i][2])))
    ELSE [status |-> 400, filters |-> NoVals]

\* _parse_query_params(query_params)
ParseQueryParams(qp) == ParseFrom(qp, 1, NoVals)

\* ---------------------------------------------------------- GET many
\* filter_by(**filters): column = value, for every filter.
Matches(row, filters) == \A k \in DOMAIN filters : row[k] = Cell(k, filters[k])

\* .filter_by(**filters).order_by(pk): the matching records, ascending.
Selected(d, filters) ==
    LET ids == SortedSeq({i \in DOMAIN d : Matches(RowOf(d, i), filters)})
    IN [n \in 1..Len(ids) |-> RowOf(d, ids[n])]

\* The window cut the other way round: the first limit records are kept and
\* the first skip of those are dropped, as objs[:limit][skip:] would.
WindowLimitFirst(rows, skip, limit) ==
    SubSeq(SubSeq(rows, 1, IF limit < Len(rows) THEN limit ELSE Len(rows)),
           skip + 1, IF limit < Len(rows) THEN limit ELSE Len(rows))

\* .offset(skip).limit(limit).all()
Window(rows, skip, limit) ==
    SubSeq(rows, skip + 1, IF skip + limit < Len(rows) THEN skip + limit ELSE Len(rows))

\* _get_all.route on the committed table d.
GetAllRoute(d, raw, fault) ==
    LET qp == QueryParams(raw)
        pagination == Pagination(qp)
        parsed == ParseQueryParams(qp)
        objs == Window(Selected(d, parsed.filters),
                       Get(pagination, "skip", DefaultSkip),
                       Get(pagination, "limit", DefaultLimit))
    IN IF parsed.status # 0 THEN Raised(parsed.status, <<>>, NoExc)
       ELSE IF "query" \in fault
            THEN [Escaped(<<"query">>, NoExc) EXCEPT !.filters = parsed.filters]
       ELSE IF objs = <<>>
            THEN [Raised(404, <<"query">>, NoExc) EXCEPT !.filters = parsed.filters]
       ELSE [Returned(200, objs, <<"query">>) EXCEPT !.filters = parsed.filters]

\* ----------------------------------------------------------- GET one
\* _get_one.route on the committed table d.
GetOneRoute(d, id, fault) ==
    IF "get" \in fault THEN Escaped(<<"get">>, NoExc)
    ELSE IF id \notin DOMAIN d THEN Raised(404, <<"get">>, NoExc)
    ELSE Returned(200, <<RowOf(d, id)>>, <<"get">>)

\* ----------------------------------------------------------- payloads
\* A payload: vals maps the fields that carry a value; nulls are the fields
\* an update payload sets to null.  In a create payload a field without a
\* value is None in model.dict(), and the INSERT leaves it to the column's
\* default.
NoPayload == [vals |-> NoVals, nulls |-> {}]

\* db_model(**model.dict()) raises TypeError: the payload has a field (note)
\* the model has no attribute for.
ConstructFails(payload) == "note" \in DOMAIN payload.vals

\* The loop of _update.route without the test field != self._pk: the
\* primary key is set like any field.
UpdatedFieldsPkMutable(payload) ==
    {f \in DOMAIN payload.vals \cup payload.nulls : f \in Columns}

\* The fields the loop of _update.route sets: field != self._pk and
\* hasattr(obj, field).
UpdatedFields(payload) ==
    {f \in DOMAIN payload.vals \cup payload.nulls : f # Pk /\ f \in Columns}

\* The change the setattr loop leaves in the session for the loaded object
\* obj: of the fields it sets, those whose new value differs from the
\* loaded one.
SetAttrs(obj, payload) ==
    [kind |-> "update", id |-> obj.id,
     vals |-> [f \in {g \in UpdatedFields(payload) \cap DOMAIN payload.vals :
                        obj[g] # Cell(g, payload.vals[g])} |-> payload.vals[f]],
     nulls |-> {f \in UpdatedFields(payload) \cap payload.nulls : obj[f] # Null},
     gone |-> {}]

\* ================================================= the companion client
\* crouton_client: CroutonClient (client.py: get/post/put/delete and the
\* awaiting aget/apost/aput/adelete, over httpx) and AsyncCroutonClient
\* (async.py, over requests).  Both are taken as constructed without an
\* access string.
Clients == {"sync", "async", "module_async"}

\* The response the server sends for the outcome r of a route: the object a
\* handler returned as one JSON document under the route's status, the
\* Response(status_code=204) of the delete routes with an empty body, an
\* HTTPException as its status with a {"detail": ...} document, and an
\* exception that left the handler as a 500.  text is the body text: the
\* empty sequence, or the one JSON document it holds.
HttpResponse(r) ==
    [status |-> IF r.kind = "SQLAlchemyError" THEN 500 ELSE r.status,
     text |-> IF r.kind = "return"
              THEN (IF r.status = 204 THEN <<>>
                    ELSE <<[detail |-> FALSE, data |-> r.body]>>)
              ELSE <<[detail |-> TRUE, data |-> <<>>]>>]

\* What a call of the client ends in: kind is return or the class of the
\* exception raised, args the exception's arguments, value what is returned.
ClientReturned(value) == [kind |-> "return", args |-> <<>>, value |-> value]
ClientRaised(kind, args) == [kind |-> kind, args |-> args, value |-> <<>>]

\* res.raise_for_status() raises HTTPStatusError: the status is not 2xx.
RaisesForStatus(h) == h.status \notin 200..299

\* res.json(): json.loads of the body text; an empty text is no JSON
\* document (JSONDecodeError).
JsonFails(h) == h.text = <<>>
Json(h) == h.text[1]

\* The try block of CroutonClient.get/aget/post/apost/put/aput/delete/adelete
\* on response h: raise_for_status, then return res.json().  HTTPStatusError
\* is turned into ValueError("<verb> request failed with status <status>:
\* <text>"); the JSONDecodeError of res.json() is no HTTPStatusError and no
\* RequestError, so it leaves the method as it is.
CroutonClientResult(verb, h) ==
    IF RaisesForStatus(h)
    THEN ClientRaised("ValueError",
                      <<[verb |-> verb, status |-> h.status, text |-> h.text]>>)
    ELSE IF JsonFails(h) THEN ClientRaised("JSONDecodeError", <<>>)
    ELSE ClientReturned(<<Json(h)>>)

\* res.model_dump_json() on the requests.Response that r.get/post/put/delete
\* returned: the class has no such attribute.
ModelDumpJson(h) == [ok |-> FALSE, exc |-> "AttributeError", value |-> <<>>]

\* AsyncCroutonClient.get/post/put/delete on response h: status 200 returns
\* res.model_dump_json(); any other status logs a line built from
\* res.model_dump_json() and then raises a ValueError without arguments.
AsyncCroutonClientResult(verb, h) ==
    LET dump == ModelDumpJson(h) IN
    IF h.status = 200
    THEN (IF dump.ok THEN ClientReturned(dump.value) ELSE ClientRaised(dump.exc, <<>>))
    ELSE (IF dump.ok THEN ClientRaised("ValueError", <<>>)
          ELSE ClientRaised(dump.exc, <<>>))

ClientResult(cl, verb, h) ==
    IF cl = "module_async" THEN AsyncCroutonClientResult(verb, h)
    ELSE CroutonClientResult(verb, h)

\* The transport raises instead of delivering a response (the connection
\* fails, the read times out): CroutonClient turns the httpx.RequestError
\* into ValueError("An error occurred while requesting <url>: <error>");
\* AsyncCroutonClient has no except clause, and the exception of requests
\* leaves the method.  rq is the request sent.
TransportFailure(cl, rq) ==
    IF cl = "module_async" THEN ClientRaised("RequestException", <<>>)
    ELSE ClientRaised("ValueError",
                      <<[method |-> rq.method, item |-> rq.item, query |-> rq.query,
                         error |-> "RequestError"]>>)

\* No call of the client is under way.  Of a call, sent holds the request
\* it has sent (none, or one), recv tells whether the response has come in,
\* out is what the call ended in (none: it is under way).
NoCall ==
    [client |-> "none", verb |-> "none", sent |-> <<>>, recv |-> FALSE,
     out |-> [kind |-> "none", args |-> <<>>, value |-> <<>>]]

\* ============================================================ the state
\* db: the committed table.  Two requests may be under way at a time, each
\* on a thread of the server's pool and on a session of its own; of thread
\* t, req[t] is the request (Idle: none), pc[t] the storage call its handler
\* makes next (idle: no request; done: the handler has ended and the
\* response is to be sent), sess[t] its session, res[t] the outcome so far,
\* quiet[t] whether no other request has changed the table since the
\* handler's first storage call, pre[t] the committed table at that call
\* (kept while quiet[t]).  call: the
\* companion client's call the request came from (NoCall: the request came
\* from elsewhere).
VARIABLES db, req, pc, sess, res, pre, quiet, call
vars == <<db, req, pc, sess, res, pre, quiet, call>>

Threads == {"A", "B"}

\* No request is being handled.  fault: the storage calls of the request at
\* which the storage fails.
Idle ==
    [op |-> "none", id |-> 0, payload |-> NoPayload, query |-> <<>>,
     fault |-> {}]

Init ==
    /\ db = EmptyDb
    /\ req = [t \in Threads |-> Idle]
    /\ pc = [t \in Threads |-> "idle"]
    /\ sess = [t \in Threads |-> NoChange]
    /\ res = [t \in Threads |-> Pending(<<>>, NoExc)]
    /\ pre = [t \in Threads |-> EmptyDb]
    /\ quiet = [t \in Threads |-> TRUE]
    /\ call = NoCall

\* Thread t is free to take up a request.
MayStart(t) == pc[t] = "idle"

\* The table is held by the write transaction of another session than that
\* of thread t: a bulk DELETE was executed there and is not yet committed
\* or rolled back.  (The changes of the ORM objects are written within
\* db.commit(), whose transaction begins and ends in that one call.)
Locked(t) == \E u \in Threads \ {t} : sess[u].kind = "delete_all"

\* The handler of request rq starts on thread t and runs up to and including
\* its first storage call, which leaves it at p with session s and outcome r.
Arrive(t, rq, p, s, r) ==
    /\ MayStart(t)
    /\ req' = [req EXCEPT ![t] = rq]
    /\ pc' = [pc EXCEPT ![t] = p]
    /\ sess' = [sess EXCEPT ![t] = s]
    /\ res' = [res EXCEPT ![t] = r]
    /\ pre' = [pre EXCEPT ![t] = db]
    /\ quiet' = [quiet EXCEPT ![t] = TRUE]
    /\ UNCHANGED db

\* The handler on thread t makes its next storage call, which leaves the
\* table as d and the handler at p with session s and outcome r.
Step(t, d, p, s, r) ==
    /\ db' = d
    /\ pc' = [pc EXCEPT ![t] = p]
    /\ sess' = [sess EXCEPT ![t] = s]
    /\ res' = [res EXCEPT ![t] = r]
    /\ quiet' = [u \in Threads |->
                    IF u # t /\ pc[u] # "idle" /\ d # db THEN FALSE ELSE quiet[u]]
    /\ pre' = [u \in Threads |->
                  IF u # t /\ pc[u] # "idle" /\ d # db THEN EmptyDb ELSE pre[u]]
    /\ UNCHANGED <<req, call>>

\* The order of a handler's storage calls, with one more commit after the
\* rollback of a failed first one.
NextCallRetry(op, ops, ok) ==
    LET c == ops[Len(ops)] IN
    CASE c = "commit" /\ ~ok -> "rollback"
      [] ~ok -> "done"
      [] c = "rollback" /\ Cardinality({i \in 1..Len(ops) : ops[i] = "commit"}) = 1 ->
            "commit"
      [] c = "get" /\ op = "update" -> "commit"
      [] c = "get" /\ op = "delete_one" -> "delete"
      [] c \in {"add", "delete", "bulk_delete"} -> "commit"
      [] c = "commit" /\ op \in {"create", "update"} -> "refresh"
      [] OTHER -> "done"

\* The order of a handler's storage calls: the call that follows the last
\* call of trace ops in the handler of op, when that call returned (ok) and
\* the handler went on, or raised (done: the handler ends).  A db.commit()
\* that raised is followed by the db.rollback() of _db_commit's except
\* clauses; any other exception leaves the handler.
NextCall(op, ops, ok) ==
    LET c == ops[Len(ops)] IN
    CASE c = "commit" /\ ~ok -> "rollback"
      [] ~ok -> "done"
      [] c = "get" /\ op = "update" -> "commit"
      [] c = "get" /\ op = "delete_one" -> "delete"
      [] c \in {"add", "delete", "bulk_delete"} -> "commit"
      [] c = "commit" /\ op \in {"create", "update"} -> "refresh"
      [] OTHER -> "done"

\* ----------------------------------------------------------- requests
\* The raw query pairs a list request is made of.  The values of id are a
\* numeral with a vertical tab before its sign and a no-break space behind
\* it, a negative numeral, a letter, and a digit behind the separator 1C;
\* that of qty is a numeral with an underscore whose last digit is Extended
\* Arabic-Indic.
Pairs ==
    {<<"skip", <<"0">>>>, <<"skip", <<"1">>>>, <<"limit", <<"1">>>>,
     <<"id", <<"", "+", "2", " ">>>>, <<"id", <<"-", "1">>>>, <<"id", <<"a">>>>,
     <<"id", <<"", "1">>>>,
     <<"qty", <<"0", "_", "۱">>>>, <<"name", <<"a">>>>, <<"bogus", <<"1">>>>}

Queries(n) == UNION {[1..k -> Pairs] : k \in 0..n}

\* The payload with the given values; 0, <<>>, -1 and FALSE leave id, name,
\* qty and note out.
MkVals(i, n, q, x) ==
    [k \in (IF i > 0 THEN {"id"} ELSE {}) \cup (IF n # <<>> THEN {"name"} ELSE {})
           \cup (IF q >= 0 THEN {"qty"} ELSE {}) \cup (IF x THEN {"note"} ELSE {}) |->
        CASE k = "id" -> i [] k = "name" -> n [] k = "qty" -> q [] OTHER -> <<"n">>]

\* The storage calls of each handler, at which a fault may strike.
FaultsOf(op) ==
    CASE op = "get_all" -> {"query"}
      [] op = "get_one" -> {"get"}
      [] op = "create" -> {"add", "commit", "rollback", "refresh"}
      [] op = "update" -> {"get", "commit", "rollback", "refresh"}
      [] op = "delete_one" -> {"get", "delete", "commit", "rollback"}
      [] OTHER -> {"bulk_delete", "commit", "rollback"}

\* The faults of one request, of the calls in F: none, one call, or the
\* commit and the rollback that follows it.
FaultSets(op, F) ==
    {S \in SUBSET (FaultsOf(op) \cap F) :
        Cardinality(S) <= 1 \/ S = {"commit", "rollback"}}

MkReq(op, id, payload, raw, fault) ==
    [op |-> op, id |-> id, payload |-> payload, query |-> raw, fault |-> fault]

\* _get_all.route: the filters, then the one query.
GetAll(t, raw, fault) ==
    /\ PaginationOk(QueryParams(raw))
    /\ Arrive(t, MkReq("get_all", 0, NoPayload, raw, fault), "done", NoChange,
              GetAllRoute(db, raw, fault))

\* _get_one.route: the one get.
GetOne(t, id, fault) ==
    Arrive(t, MkReq("get_one", id, NoPayload, <<>>, fault), "done", NoChange,
           GetOneRoute(db, id, fault))

\* _create.route building the object without the payload's primary key.
CreateIgnoresPk(t, payload, fault) ==
    LET rq == MkReq("create", 0, payload, <<>>, fault)
        ok == "add" \notin fault
    IN IF ConstructFails(payload)
       THEN Arrive(t, rq, "done", NoChange, Raised(400, <<>>, NoExc))
       ELSE IF ~ok
       THEN Arrive(t, rq, NextCall("create", <<"add">>, ok), NoChange,
                   Escaped(<<"add">>, NoExc))
       ELSE Arrive(t, rq, NextCall("create", <<"add">>, ok),
                   [NoChange EXCEPT !.kind = "insert",
                                    !.vals = Restrict(payload.vals, Columns \ {Pk})],
                   Pending(<<"add">>, NoExc))

\* _create.route up to db.add(obj): db_model(**model.dict()), 400 when it
\* raises, then the add.
Create(t, payload, fault) ==
    LET rq == MkReq("create", 0, payload, <<>>, fault)
        ok == "add" \notin fault
    IN IF ConstructFails(payload)
       THEN Arrive(t, rq, "done", NoChange, Raised(400, <<>>, NoExc))
       ELSE IF ~ok
       THEN Arrive(t, rq, NextCall("create", <<"add">>, ok), NoChange,
                   Escaped(<<"add">>, NoExc))
       ELSE Arrive(t, rq, NextCall("create", <<"add">>, ok),
                   [NoChange EXCEPT !.kind = "insert",
                                    !.vals = Restrict(payload.vals, Columns)],
                   Pending(<<"add">>, NoExc))

\* _update.route up to the commit: _get_one (404 if absent), then the
\* setattr loop over the payload's set fields.
Update(t, id, payload, fault) ==
    LET rq == MkReq("update", id, payload, <<>>, fault)
        g == GetOneRoute(db, id, fault)
    IN IF g.kind # "return"
       THEN Arrive(t, rq, "done", NoChange, g)
       ELSE Arrive(t, rq, NextCall("update", g.ops, TRUE),
                   SetAttrs(g.body[1], payload), Pending(g.ops, NoExc))

\* _delete_one.route without the _get_one lookup: the delete comes first.
DeleteOneNoLookup(t, id, fault) ==
    LET rq == MkReq("delete_one", id, NoPayload, <<>>, fault)
        ok == "delete" \notin fault
    IN IF ~ok
       THEN Arrive(t, rq, NextCall("delete_one", <<"delete">>, ok), NoChange,
                   Escaped(<<"delete">>, NoExc))
       ELSE Arrive(t, rq, NextCall("delete_one", <<"delete">>, ok),
                   [NoChange EXCEPT !.kind = "delete", !.id = id],
                   Pending(<<"delete">>, NoExc))

\* _delete_one.route up to the delete: _get_one (404 if absent).
DeleteOne(t, id, fault) ==
    LET rq == MkReq("delete_one", id, NoPayload, <<>>, fault)
        g == GetOneRoute(db, id, fault)
    IN IF g.kind # "return"
       THEN Arrive(t, rq, "done", NoChange, g)
       ELSE Arrive(t, rq, NextCall("delete_one", g.ops, TRUE),
                   [NoChange EXCEPT !.id = g.body[1].id], Pending(g.ops, NoExc))

\* _delete_all.route raising 404 on an empty table, as _get_all does.
DeleteAllNotFound(t, fault) ==
    LET rq == MkReq("delete_all", 0, NoPayload, <<>>, fault)
        ok == "bulk_delete" \notin fault /\ ~Locked(t)
    IN IF "bulk_delete" \in fault
       THEN Arrive(t, rq, NextCall("delete_all", <<"bulk_delete">>, ok), NoChange,
                   Escaped(<<"bulk_delete">>, NoExc))
       ELSE IF Locked(t)
       THEN Arrive(t, rq, NextCall("delete_all", <<"bulk_delete">>, ok), NoChange,
                   Escaped(<<"bulk_delete">>, LockedExc))
       ELSE IF DOMAIN db = {}
       THEN Arrive(t, rq, "done", NoChange, Raised(404, <<"bulk_delete">>, NoExc))
       ELSE Arrive(t, rq, NextCall("delete_all", <<"bulk_delete">>, ok),
                   [NoChange EXCEPT !.kind = "delete_all", !.gone = DOMAIN db],
                   Pending(<<"bulk_delete">>, NoExc))

\* _delete_all.route up to the commit: query(...).delete(), the DELETE of
\* every record the table holds, executed at once in the session's
\* transaction, which holds the table from then on until the commit or the
\* rollback.  The store refuses the DELETE while another session's
\* transaction holds the table; that exception leaves the handler.
DeleteAll(t, fault) ==
    LET rq == MkReq("delete_all", 0, NoPayload, <<>>, fault)
        ok == "bulk_delete" \notin fault /\ ~Locked(t)
    IN IF "bulk_delete" \in fault
       THEN Arrive(t, rq, NextCall("delete_all", <<"bulk_delete">>, ok), NoChange,
                   Escaped(<<"bulk_delete">>, NoExc))
       ELSE IF Locked(t)
       THEN Arrive(t, rq, NextCall("delete_all", <<"bulk_delete">>, ok), NoChange,
                   Escaped(<<"bulk_delete">>, LockedExc))
       ELSE Arrive(t, rq, NextCall("delete_all", <<"bulk_delete">>, ok),
                   [NoChange EXCEPT !.kind = "delete_all", !.gone = DOMAIN db],
                   Pending(<<"bulk_delete">>, NoExc))

\* db.delete(obj) of _delete_one.route.
Delete(t) ==
    /\ pc[t] = "delete"
    /\ LET ops == Append(res[t].ops, "delete")
           ok == "delete" \notin req[t].fault
       IN IF ~ok
          THEN Step(t, db, NextCall(req[t].op, ops, ok), sess[t], Escaped(ops, NoExc))
          ELSE Step(t, db, NextCall(req[t].op, ops, ok),
                    [NoChange EXCEPT !.kind = "delete", !.id = sess[t].id],
                    Pending(ops, NoExc))

\* db.commit() of _db_commit: the session's change is flushed and committed
\* against the table as it is now, unless another session's transaction
\* holds the table and the flush has something to write.  When it returns, the delete handlers end
\* with Response(status_code=204) and create and update go on to the
\* refresh; when it raises, the except clause is entered.
Commit(t, drv, sane) ==
    /\ pc[t] = "commit"
    /\ LET exc == CommitRaises(db, sess[t], req[t].fault, drv, sane, Locked(t))
           ops == Append(res[t].ops, "commit")
           p == NextCall(req[t].op, ops, exc.cls = "none")
       IN IF exc.cls = "none"
          THEN Step(t, Flushed(db, sess[t]), p, Committed(db, sess[t]),
                    IF p = "done" THEN Returned(204, <<>>, ops)
                    ELSE Pending(ops, NoExc))
          ELSE Step(t, db, p, sess[t], Pending(ops, exc))

\* The except clauses of _db_commit: db.rollback(), then the HTTPException.
\* A rollback that raises leaves the clause, and the handler, with its own
\* exception.
Rollback(t) ==
    /\ pc[t] = "rollback"
    /\ LET ops == Append(res[t].ops, "rollback")
           ok == "rollback" \notin req[t].fault
           p == NextCall(req[t].op, ops, ok)
           exc == res[t].err
       IN IF ~ok
          THEN Step(t, db, p, sess[t], Escaped(ops, exc))
          ELSE Step(t, db, p, RolledBack(sess[t]),
                    IF p = "done" THEN Raised(CommitStatus(exc), ops, exc)
                    ELSE Pending(ops, exc))

\* db.refresh(obj) of _create.route and _update.route, and the return: the
\* object is read again by its primary key; InvalidRequestError (a
\* SQLAlchemyError) when the table has no such row.
Refresh(t) ==
    /\ pc[t] = "refresh"
    /\ LET ops == Append(res[t].ops, "refresh")
           ok == "refresh" \notin req[t].fault /\ sess[t].id \in DOMAIN db
           p == NextCall(req[t].op, ops, ok)
       IN IF ~ok
          THEN Step(t, db, p, sess[t], Escaped(ops, NoExc))
          ELSE Step(t, db, p, sess[t],
                    Returned(IF req[t].op = "create" THEN 201 ELSE 200,
                             <<RowOf(db, sess[t].id)>>, ops))

\* The response is sent and the request's session is closed.
Respond(t) ==
    /\ pc[t] = "done"
    /\ req' = [req EXCEPT ![t] = Idle]
    /\ pc' = [pc EXCEPT ![t] = "idle"]
    /\ sess' = [sess EXCEPT ![t] = NoChange]
    /\ res' = [res EXCEPT ![t] = Pending(<<>>, NoExc)]
    /\ pre' = [pre EXCEPT ![t] = EmptyDb]
    /\ quiet' = [quiet EXCEPT ![t] = TRUE]
    /\ UNCHANGED db

\* The storage calls under way go on.
Calls(T, D, S) ==
    \/ \E t \in T : Delete(t)
    \/ \E t \in T, drv \in D, sane \in S : Commit(t, drv, sane)
    \/ \E t \in T : Rollback(t)
    \/ \E t \in T : Refresh(t)

\* The requests of profile P: on the threads P.T, with faults at the calls
\* P.F, list queries of at most P.n pairs, keys up to P.m; create payloads
\* of the names P.names, the quantities P.qtys (-1: none) and the keys P.pks
\* (0: none), update payloads of P.unames, P.uqtys and P.upks with the nulls
\* P.nulls, either with or without a field the model lacks (P.notes).  A
\* create is taken up while the table's next key is within the bound.
Requests(P) ==
    \/ \E t \in P.T :
          /\ MayStart(t) /\ UNCHANGED call
          /\ \E raw \in Queries(P.n), f \in FaultSets("get_all", P.F) : GetAll(t, raw, f)
    \/ \E t \in P.T :
          /\ MayStart(t) /\ UNCHANGED call
          /\ \E id \in 1..P.m, f \in FaultSets("get_one", P.F) : GetOne(t, id, f)
    \/ \E t \in P.T :
          /\ MayStart(t) /\ UNCHANGED call
          /\ NextPk(db) <= P.m
          /\ \E i \in P.pks, nm \in P.names \cup {<<>>}, q \in P.qtys, x \in P.notes,
                f \in FaultSets("create", P.F) :
                Create(t, [vals |-> MkVals(i, nm, q, x), nulls |-> {}], f)
    \/ \E t \in P.T :
          /\ MayStart(t) /\ UNCHANGED call
          /\ \E id \in 1..P.m, i \in P.upks, nm \in P.unames \cup {<<>>}, q \in P.uqtys,
                x \in P.notes, nulls \in P.nulls, f \in FaultSets("update", P.F) :
                /\ "name" \in nulls => nm = <<>>
                /\ "qty" \in nulls => q = -1
                /\ Update(t, id, [vals |-> MkVals(i, nm, q, x), nulls |-> nulls], f)
    \/ \E t \in P.T :
          /\ MayStart(t) /\ UNCHANGED call
          /\ \E id \in 1..P.m, f \in FaultSets("delete_one", P.F) : DeleteOne(t, id, f)
    \/ \E t \in P.T :
          /\ MayStart(t) /\ UNCHANGED call
          /\ \E f \in FaultSets("delete_all", P.F) : DeleteAll(t, f)
    \/ Calls(P.T, P.drvs, P.sane)
    \/ \E t \in P.T : Respond(t) /\ UNCHANGED call

AllFaults ==
    {"query", "get", "add", "commit", "rollback", "refresh", "delete", "bulk_delete"}

\* One request at a time over storage that answers every call, with list
\* queries of up to MaxParams pairs.
ListProfile ==
    [T |-> {"A"}, F |-> {}, n |-> MaxParams, m |-> MaxId,
     names |-> Names, qtys |-> {-1, 1}, pks |-> {0},
     unames |-> Names, uqtys |-> {-1, 1}, upks |-> {0},
     notes |-> {FALSE}, nulls |-> {{}}, drvs |-> {"sqlite"}, sane |-> {TRUE}]
NextList == Requests(ListProfile)
SpecList == Init /\ [][NextList]_vars

\* One request at a time over storage that may fail at any call of a
\* request, with every payload.
FaultProfile ==
    [T |-> {"A"}, F |-> AllFaults, n |-> MaxFaultParams, m |-> MaxId,
     names |-> {<<"a">>, <<"b">>}, qtys |-> {-1, 1}, pks |-> {0, 1},
     unames |-> {<<"a">>, <<"b">>}, uqtys |-> {-1, 1}, upks |-> {0, 1},
     notes |-> BOOLEAN, nulls |-> SUBSET {"name", "qty"},
     drvs |-> Drivers, sane |-> {TRUE}]
NextFault == Requests(FaultProfile)
SpecFault == Init /\ [][NextFault]_vars

\* Two requests at a time over storage that answers every call, with every
\* create payload and updates of the name.
ConcProfile ==
    [T |-> Threads, F |-> {}, n |-> 0, m |-> MaxConcId,
     names |-> {<<"a">>, <<"b">>}, qtys |-> {-1, 1}, pks |-> {0, 1},
     unames |-> {<<"a">>, <<"b">>}, uqtys |-> {-1}, upks |-> {0},
     notes |-> {FALSE}, nulls |-> {{}},
     drvs |-> {"sqlite"}, sane |-> BOOLEAN]
Next == Requests(ConcProfile)
Spec == Init /\ [][Next]_vars

\* Two requests at a time over storage that answers every call, with
\* creates of a name and updates of every shape: with and without a primary
\* key and a name, with qty left out or set to null.
UpdateProfile ==
    [T |-> Threads, F |-> {}, n |-> 0, m |-> MaxConcId,
     names |-> {<<"a">>, <<"b">>}, qtys |-> {-1}, pks |-> {0},
     unames |-> {<<"a">>}, uqtys |-> {-1}, upks |-> {0, 1},
     notes |-> {FALSE}, nulls |-> {{}, {"qty"}},
     drvs |-> {"sqlite"}, sane |-> BOOLEAN]
NextUpdate == Requests(UpdateProfile)
SpecUpdate == Init /\ [][NextUpdate]_vars

\* ------------------------------------------------- calls of the client
\* The filters dict of a get: raw pairs with no key twice.
Filters(n) ==
    {q \in Queries(n) : \A i, j \in 1..Len(q) : q[i][1] = q[j][1] => i = j}

\* json=data_obj: the JSON document of a dict, every value with its JSON
\* type.
JsonDoc(vals) ==
    [k \in DOMAIN vals |->
        <<IF k \in {"id", "qty"} THEN "number" ELSE "string", vals[k]>>]

\* UUIDGenerator().create(): a uuid4 string.
Uuid == <<"u", "u", "i", "d", "4">>

\* post / apost: a data_obj without id is given one by UUIDGenerator.
WithId(doc) ==
    IF Pk \in DOMAIN doc THEN doc
    ELSE [k \in DOMAIN doc \cup {Pk} |-> IF k = Pk THEN <<"string", Uuid>> ELSE doc[k]]

\* The request a method sends: the URL _build_url makes of the resource, the
\* item id (0: none, the collection's URL) and the query parameters, and the
\* JSON document.
Request(verb, item, query, doc) ==
    [method |-> verb, item |-> item, query |-> query, json |-> doc]

\* A call of client cl has sent request rq and waits for the response.
Sent(cl, rq) ==
    call' = [NoCall EXCEPT !.client = cl, !.verb = rq.method, !.sent = <<rq>>]

\* The server answers a request no handler takes with a status of its own:
\* 422 for a body that is no instance of create_schema (an id that is no
\* integer), 405 for a method the URL has no route for.
Refused(t, status) ==
    Arrive(t, [Idle EXCEPT !.op = "refused"], "done", NoChange,
           Raised(status, <<>>, NoExc))

\* No request reaches the server.
Unreached(t) ==
    Arrive(t, [Idle EXCEPT !.op = "unsent"], "done", NoChange, Pending(<<>>, NoExc))

\* The call of a method that sends request rq: the server takes the request
\* up (handled), or the transport fails before the request reaches it.
Exchange(cl, rq, handled) ==
    \/ handled /\ Sent(cl, rq)
    \/ /\ Unreached("A")
       /\ call' = [NoCall EXCEPT !.client = cl, !.verb = rq.method, !.sent = <<rq>>,
                                 !.out = TransportFailure(cl, rq)]

\* One call of the client that ends before any request is sent.
NoExchange(cl, verb, out) ==
    /\ Unreached("A")
    /\ call' = [NoCall EXCEPT !.client = cl, !.verb = verb, !.out = out]

\* get / aget: with an item id the item's URL, without one the collection's,
\* either with the filters as the query string (the get-one route reads no
\* query string).  AsyncCroutonClient.get takes no filters.
ClientGet(cl, item_id, filters) ==
    /\ cl = "module_async" => filters = <<>>
    /\ Exchange(cl, Request("GET", item_id, filters, NoVals),
                IF item_id # 0 THEN GetOne("A", item_id, {})
                ELSE GetAll("A", filters, {}))

\* post / apost of data_obj, with the id of UUIDGenerator if it has none; the
\* server turns down the body whose id is no integer.
ClientPost(cl, data_obj) ==
    LET doc == WithId(JsonDoc(data_obj.vals)) IN
    Exchange(cl, Request("POST", 0, <<>>, doc),
             IF doc[Pk][1] = "number" THEN Create("A", data_obj, {})
             ELSE Refused("A", 422))

\* put / aput: with an item id the item's URL, without one (aput's default)
\* the collection's, which has no route for PUT.  AsyncCroutonClient.put
\* without an item id sends nothing and returns None.
ClientPut(cl, item_id, data_obj) ==
    \/ /\ item_id # 0
       /\ Exchange(cl, Request("PUT", item_id, <<>>, JsonDoc(data_obj.vals)),
                   Update("A", item_id, data_obj, {}))
    \/ /\ item_id = 0 /\ cl # "module_async"
       /\ Exchange(cl, Request("PUT", item_id, <<>>, JsonDoc(data_obj.vals)),
                   Refused("A", 405))
    \/ /\ item_id = 0 /\ cl = "module_async"
       /\ NoExchange(cl, "PUT", ClientReturned(<<>>))

\* delete / adelete: with an item id the item's URL, without one the
\* collection's.  AsyncCroutonClient.delete without an item id builds its URL
\* from '/' + None, a TypeError.
ClientDelete(cl, item_id) ==
    \/ /\ item_id # 0
       /\ Exchange(cl, Request("DELETE", item_id, <<>>, NoVals),
                   DeleteOne("A", item_id, {}))
    \/ /\ item_id = 0 /\ cl # "module_async"
       /\ Exchange(cl, Request("DELETE", item_id, <<>>, NoVals), DeleteAll("A", {}))
    \/ /\ item_id = 0 /\ cl = "module_async"
       /\ NoExchange(cl, "DELETE", ClientRaised("TypeError", <<>>))

\* The response of the request reaches the client, and the call ends as the
\* method makes of it.
ClientReceive ==
    /\ pc["A"] = "done"
    /\ call.sent # <<>> /\ call.out.kind = "none"
    /\ call' = [call EXCEPT
                   !.recv = TRUE,
                   !.out = ClientResult(call.client, call.verb, HttpResponse(res["A"]))]
    /\ UNCHANGED <<db, req, pc, sess, res, pre, quiet>>

\* The transport raises while the call waits for the response (a read
\* timeout): the call ends in the failure, and the handler goes on.
ClientTimeout ==
    /\ pc["A"] # "idle"
    /\ call.sent # <<>> /\ call.out.kind = "none"
    /\ call' = [call EXCEPT !.out = TransportFailure(call.client, call.sent[1])]
    /\ UNCHANGED <<db, req, pc, sess, res, pre, quiet>>

\* The call has ended, and so has the handler of its request.
ClientDone ==
    /\ call.out.kind # "none"
    /\ Respond("A")
    /\ call' = NoCall

\* Every request comes from a call of the client, over storage that answers
\* every call.  A post is taken up while the table's next key is within the
\* bound.
NextClient ==
    \/ /\ MayStart("A")
       /\ \E cl \in Clients, id \in 0..MaxId, raw \in Filters(MaxClientParams) :
             ClientGet(cl, id, raw)
    \/ /\ MayStart("A")
       /\ NextPk(db) <= MaxId
       /\ \E cl \in Clients, i \in 0..MaxId, nm \in Names \cup {<<>>}, q \in {-1, 1},
             x \in BOOLEAN :
             ClientPost(cl, [vals |-> MkVals(i, nm, q, x), nulls |-> {}])
    \/ /\ MayStart("A")
       /\ \E cl \in Clients, id \in 0..MaxId, i \in {0, 1}, nm \in Names \cup {<<>>},
             q \in {-1, 1} :
             ClientPut(cl, id, [vals |-> MkVals(i, nm, q, FALSE), nulls |-> {}])
    \/ /\ MayStart("A")
       /\ \E cl \in Clients, id \in 0..MaxId : ClientDelete(cl, id)
    \/ Calls({"A"}, Drivers, {TRUE})
    \/ ClientReceive
    \/ ClientTimeout
    \/ ClientDone
SpecClient == Init /\ [][NextClient]_vars

\* ============================================================ the claims
\* What the formulas read off the request, not off the handlers; qp is the
\* query-parameter mapping of the request being answered.
\* The handler on thread t has ended and its response is not yet sent.
Done(t) == pc[t] = "done"
\* The keys that are neither skip/limit nor a declared field, by position.
UnknownAt(qp) == {i \in 1..Len(qp) : qp[i][1] \notin ExcludedParams \cup Columns}
\* The declared integer fields whose value int() does not take, by position.
BadValueAt(qp) ==
    {i \in 1..Len(qp) : qp[i][1] \in {"id", "qty"} /\ ~IsNumeral(qp[i][2])}
\* The pairs of the raw query that count: the last one of each key.
LastAt(raw) ==
    {n \in 1..Len(raw) : \A m \in (n + 1)..Len(raw) : raw[m][1] # raw[n][1]}
\* The filters the request asks for: the declared fields it names, by the
\* position of the pair that counts.
FilterAt(raw) == {n \in LastAt(raw) : raw[n][1] \in Columns}
\* The request's filters are valid: it names nothing but skip, limit and
\* declared fields, and gives every integer field a value int() takes.
ValidFilters(raw) ==
    /\ \A n \in 1..Len(raw) : raw[n][1] \in ExcludedParams \cup Columns
    /\ \A n \in FilterAt(raw) : raw[n][1] \in {"id", "qty"} => IsNumeral(raw[n][2])
\* The value the n-th pair of the request asks its field to have.
AskedValue(raw, n) ==
    IF raw[n][1] \in {"id", "qty"} THEN IntOf(raw[n][2]) ELSE raw[n][2]
\* The skip and limit of the request.
SkipOf(raw) ==
    IF \E n \in LastAt(raw) : raw[n][1] = "skip"
    THEN IntOf(raw[CHOOSE n \in LastAt(raw) : raw[n][1] = "skip"][2]) ELSE 0
LimitOf(raw) ==
    IF \E n \in LastAt(raw) : raw[n][1] = "limit"
    THEN IntOf(raw[CHOOSE n \in LastAt(raw) : raw[n][1] = "limit"][2]) ELSE 100
\* The records of collection d that match every filter of the request.
MatchIds(d, raw) ==
    {i \in DOMAIN d :
        \A n \in FilterAt(raw) :
            RowOf(d, i)[raw[n][1]] = Cell(raw[n][1], AskedValue(raw, n))}
\* The size of the window skip/limit cut out of n matching records.
WindowSize(n, skip, limit) ==
    IF n <= skip THEN 0 ELSE IF n - skip < limit THEN n - skip ELSE limit
\* What payload p asks field f of a record to be, when it carries the field.
Asked(p, f) == IF f \in p.nulls THEN Null ELSE Cell(f, p.vals[f])
Carries(p, f) == f \in p.nulls \/ f \in DOMAIN p.vals
\* Thread t takes the step from call c to p.
Moves(t, c, p) == pc[t] = c /\ pc'[t] = p
\* The db.commit() of the request with outcome r has raised.
CommitRaised(r) ==
    r.err.cls # "none" /\ \E i \in 1..Len(r.ops) : r.ops[i] = "commit"

\* The update on thread t has returned and no other request has changed the
\* collection meanwhile: against the collection before the request, the
\* target keeps its key, carries the payload's values and its previous ones
\* elsewhere, no other record differs, and the target is what is returned.
C1_Returned(t) ==
    (Done(t) /\ req[t].op = "update" /\ res[t].kind = "return" /\ quiet[t]) =>
        /\ req[t].id \in DOMAIN pre[t]
        /\ DOMAIN db = DOMAIN pre[t]
        /\ \A i \in DOMAIN pre[t] \ {req[t].id} : db[i] = pre[t][i]
        /\ \A f \in Columns \ {Pk} :
              db[req[t].id][f] = IF Carries(req[t].payload, f)
                                 THEN Asked(req[t].payload, f)
                                 ELSE pre[t][req[t].id][f]
        /\ res[t].body = <<RowOf(db, req[t].id)>>

\* The commit of the update on thread t, whatever other requests did before
\* it: no record is added or removed, no record but the target is written,
\* the target keeps its key, a field the payload does not carry keeps the
\* value the table holds, and a field it carries holds the payload's value
\* or (when the payload's value is the one the handler loaded) is left alone.
C1_Commit(t) ==
    (Moves(t, "commit", "refresh") /\ req[t].op = "update") =>
        /\ DOMAIN db' = DOMAIN db
        /\ \A i \in DOMAIN db \ {req[t].id} : db'[i] = db[i]
        /\ req[t].id \in DOMAIN db =>
              \A f \in Columns \ {Pk} :
                 \/ db'[req[t].id][f] = db[req[t].id][f]
                 \/ /\ Carries(req[t].payload, f)
                    /\ db'[req[t].id][f] = Asked(req[t].payload, f)

\* C1: after a successful update the target keeps its primary key (also when
\* the payload carries another one), every field the payload carries (other
\* than the primary key) has the payload's value, every field it does not
\* carry has its previous value, and no other record of the collection is
\* changed, added or removed.  The collection before and after is compared
\* for an update no other request's commit fell into; the update's own
\* commit writes nothing else in any interleaving.
C1_UpdateFrame ==
    /\ [](\A t \in Threads : C1_Returned(t))
    /\ [][\A t \in Threads : C1_Commit(t)]_vars

\* An update that succeeded on a payload carrying another primary key and a
\* null qty but no name, of a record whose qty was not null, with a second
\* record in the collection, while another request was waiting to commit.
C1_Witness ==
    /\ Done("A") /\ req["A"].op = "update" /\ res["A"].kind = "return" /\ quiet["A"]
    /\ pc["B"] = "commit"
    /\ Cardinality(DOMAIN pre["A"]) >= 2
    /\ Pk \in DOMAIN req["A"].payload.vals
    /\ req["A"].payload.vals[Pk] # req["A"].id
    /\ "qty" \in req["A"].payload.nulls
    /\ pre["A"][req["A"].id].qty # Null
    /\ ~Carries(req["A"].payload, "name")

\* A get-one, update or delete-one that ended in not-found made the lookup
\* and no other storage call, holds nothing in its session, and has left the
\* collection as it was.
C2_NotFound(t) ==
    (Done(t) /\ req[t].op \in {"get_one", "update", "delete_one"}
        /\ res[t].status = 404) =>
        /\ res[t].kind = "HTTPException"
        /\ res[t].ops = <<"get">>
        /\ sess[t] = NoChange
        /\ quiet[t] => db = pre[t]

\* A get-one, update or delete-one that is taken up for an id the collection
\* has no record of ends at once, in not-found.
C2_Lookup(t) ==
    (/\ pc[t] = "idle" /\ pc'[t] # "idle"
     /\ req'[t].op \in {"get_one", "update", "delete_one"}
     /\ req'[t].id \notin DOMAIN db) =>
        /\ pc'[t] = "done"
        /\ res'[t].kind = "HTTPException" /\ res'[t].status = 404
        /\ res'[t].ops = <<"get">>
        /\ sess'[t] = NoChange
        /\ db' = db

\* C2: get-one, update and delete-one of an id that has no record all end in
\* not-found (404), after the lookup alone: nothing is set, deleted or
\* committed, and the collection is unchanged.
C2_NotFoundParity ==
    /\ [](\A t \in Threads : C2_NotFound(t))
    /\ [][\A t \in Threads : C2_Lookup(t)]_vars

\* An update of a missing id, with a payload that sets a field, on a
\* collection that holds other records, while another request is under way.
C2_Witness ==
    /\ Done("B") /\ req["B"].op = "update" /\ req["B"].id \notin DOMAIN db
    /\ DOMAIN db # {}
    /\ "name" \in DOMAIN req["B"].payload.vals
    /\ res["B"].status = 404
    /\ pc["A"] = "commit"

\* C3: a list request whose filters are valid (skip >= 0, limit >= 1)
\* returns the records that match every filter the request names, in
\* ascending primary-key order, without the first skip of them and at most
\* limit of them: its j-th record is the matching record with skip + j - 1
\* smaller matching keys.  It ends in not-found (404) exactly when that
\* window is empty, and never changes the collection.
C3_ListWindow ==
    \A t \in Threads :
    (/\ Done(t) /\ req[t].op = "get_all" /\ ValidFilters(req[t].query)
     /\ SkipOf(req[t].query) >= 0 /\ LimitOf(req[t].query) >= 1) =>
        LET match == MatchIds(pre[t], req[t].query)
            skip == SkipOf(req[t].query)
            size == WindowSize(Cardinality(match), skip, LimitOf(req[t].query))
        IN /\ db = pre[t]
           /\ IF size = 0
              THEN res[t].kind = "HTTPException" /\ res[t].status = 404
              ELSE /\ res[t].kind = "return"
                   /\ Len(res[t].body) = size
                   /\ \A j \in 1..Len(res[t].body) :
                         /\ res[t].body[j].id \in match
                         /\ res[t].body[j] = RowOf(pre[t], res[t].body[j].id)
                         /\ Cardinality({i \in match : i < res[t].body[j].id})
                               = skip + j - 1

\* skip=0&limit=1 on three records returns the record of the smallest key.
C3_Witness ==
    /\ Done("A") /\ req["A"].op = "get_all"
    /\ Cardinality(DOMAIN pre["A"]) = 3
    /\ req["A"].query = <<(<<"skip", <<"0">>>>), (<<"limit", <<"1">>>>)>>
    /\ res["A"].kind = "return"
    /\ res["A"].body = <<RowOf(pre["A"], Min(DOMAIN pre["A"]))>>

\* The delete-all on thread t has ended: in 204 with an empty body after the
\* DELETE and the commit, the collection empty unless another request has
\* written to it since; or, when the store refused its DELETE, in the
\* store's exception after that one call.
C4_Ended(t) ==
    (Done(t) /\ req[t].op = "delete_all") =>
        \/ /\ res[t].kind = "return" /\ res[t].status = 204
           /\ res[t].body = <<>>
           /\ res[t].ops = <<"bulk_delete", "commit">>
           /\ quiet[t] => DOMAIN db = {}
        \/ /\ res[t].kind = "SQLAlchemyError" /\ res[t].err.violation = "locked"
           /\ res[t].ops = <<"bulk_delete">>

\* The steps of the delete-all on thread t: its DELETE is refused exactly
\* when the DELETE of another delete-all is waiting for its commit, whatever
\* the collection holds; and its commit leaves the collection empty and ends
\* the request in 204.
C4_Steps(t) ==
    /\ (pc[t] = "idle" /\ pc'[t] # "idle" /\ req'[t].op = "delete_all") =>
          IF \E u \in Threads \ {t} : req[u].op = "delete_all" /\ pc[u] = "commit"
          THEN pc'[t] = "done" /\ res'[t].err.violation = "locked"
          ELSE pc'[t] = "commit" /\ res'[t].kind = "pending"
    /\ (pc[t] = "commit" /\ pc'[t] # "commit" /\ req[t].op = "delete_all") =>
          /\ pc'[t] = "done"
          /\ DOMAIN db' = {}
          /\ res'[t].kind = "return" /\ res'[t].status = 204

\* C4: delete-all ends in 204 with an empty body, whether or not the
\* collection was empty before, and leaves the collection empty; so does a
\* second delete-all after it.  (The one delete-all that does not: the one
\* whose DELETE the store refuses because another delete-all holds the
\* table; the collection is empty after the commit, and at the response
\* when no other request has written to it since.)
C4_DeleteAllSucceeds ==
    /\ [](\A t \in Threads : C4_Ended(t))
    /\ [][\A t \in Threads : C4_Steps(t)]_vars

\* A delete-all on a collection that was already empty, after another
\* request's delete-all emptied it, while a third request is under way.
C4_Witness ==
    /\ Done("A") /\ req["A"].op = "delete_all" /\ quiet["A"]
    /\ DOMAIN pre["A"] = {} /\ res["A"].status = 204 /\ DOMAIN db = {}
    /\ pc["B"] = "commit" /\ req["B"].op = "create"

\* C5 as stated: a list request with an unknown key ends in bad-input (400),
\* whatever accompanies the key, before any query is issued.
C5_UnknownAlwaysBadInput ==
    \A t \in Threads :
    (Done(t) /\ req[t].op = "get_all" /\ UnknownAt(QueryParams(req[t].query)) # {}) =>
        res[t].kind = "HTTPException" /\ res[t].status = 400 /\ res[t].ops = <<>>

\* C5 amended: a list request with an unknown key is turned down before any
\* query is issued; with bad-input (400) unless a declared field whose value
\* cannot be coerced stands before the first unknown key, and then with
\* unprocessable (422).
C5_UnknownRejected ==
    \A t \in Threads :
    (Done(t) /\ req[t].op = "get_all") =>
        LET qp == QueryParams(req[t].query)
            unknown == UnknownAt(qp)
        IN unknown # {} =>
              /\ res[t].kind = "HTTPException"
              /\ res[t].ops = <<>>
              /\ db = pre[t]
              /\ res[t].status =
                    IF \E i \in BadValueAt(qp) : i < Min(unknown) THEN 422 ELSE 400

\* An unknown key, followed by a declared field of a wrong-typed value: 400.
C5_Witness ==
    /\ Done("A") /\ req["A"].op = "get_all"
    /\ UnknownAt(QueryParams(req["A"].query)) # {}
    /\ BadValueAt(QueryParams(req["A"].query)) # {}
    /\ Min(UnknownAt(QueryParams(req["A"].query)))
          < Min(BadValueAt(QueryParams(req["A"].query)))
    /\ res["A"].status = 400

\* C6 as stated: a list request with a declared field whose value cannot be
\* coerced ends in unprocessable (422).
C6_BadValueAlwaysUnprocessable ==
    \A t \in Threads :
    (Done(t) /\ req[t].op = "get_all" /\ BadValueAt(QueryParams(req[t].query)) # {}) =>
        res[t].kind = "HTTPException" /\ res[t].status = 422

\* C6 amended: a list request with a declared field whose value cannot be
\* coerced is turned down with unprocessable (422) unless an unknown key
\* stands before the first such field, and then with bad-input (400); skip
\* and limit are never filters, and a request whose other keys are all
\* declared fields of coercible values gets neither failure.
C6_BadValueRejected ==
    \A t \in Threads :
    (Done(t) /\ req[t].op = "get_all") =>
        LET qp == QueryParams(req[t].query)
            bad == BadValueAt(qp)
            unknown == UnknownAt(qp)
        IN /\ bad # {} =>
                 /\ res[t].kind = "HTTPException"
                 /\ res[t].ops = <<>>
                 /\ res[t].status = IF \E i \in unknown : i < Min(bad) THEN 400 ELSE 422
           /\ DOMAIN res[t].filters \cap ExcludedParams = {}
           /\ (bad = {} /\ unknown = {}) => res[t].status \notin {400, 422}

\* skip and limit next to a declared field of a wrong-typed value: 422.
C6_Witness ==
    /\ Done("A") /\ req["A"].op = "get_all"
    /\ HasKey(QueryParams(req["A"].query), "skip")
    /\ HasKey(QueryParams(req["A"].query), "limit")
    /\ BadValueAt(QueryParams(req["A"].query)) # {}
    /\ UnknownAt(QueryParams(req["A"].query)) = {}
    /\ res["A"].status = 422

\* C7 as stated: a failed commit ends in conflict (409) when a uniqueness
\* constraint (the unique index or the primary key) is violated, in
\* unprocessable (422) when another constraint is, and in internal (500)
\* when the storage failed otherwise.
C7_CommitClassified ==
    \A t \in Threads :
    (Done(t) /\ CommitRaised(res[t])) =>
        /\ res[t].kind = "HTTPException"
        /\ res[t].status = CASE res[t].err.cls = "SQLAlchemyError" -> 500
                             [] res[t].err.violation \in {"unique", "pk"} -> 409
                             [] OTHER -> 422

\* C8 as stated: no storage exception leaves a handler; every request ends
\* in a response or a typed error.
C8_NoRawException ==
    \A t \in Threads : Done(t) => res[t].kind \in {"return", "HTTPException"}

\* C9: when the commit of a create, update, delete-one or delete-all fails,
\* the rollback is the handler's next and last storage call and comes before
\* the typed error: the request does not return, a typed error is raised
\* only with nothing left pending in the session, and the collection is what
\* it was before the request.
C9_RollbackOnCommitFailure ==
    \A t \in Threads :
    CommitRaised(res[t]) =>
        /\ pc[t] \in {"rollback", "done"}
        /\ quiet[t] => db = pre[t]
        /\ res[t].kind # "return"
        /\ res[t].ops[Len(res[t].ops)] = (IF Done(t) THEN "rollback" ELSE "commit")
        /\ Done(t) =>
              /\ Len(res[t].ops) >= 2
              /\ res[t].ops[Len(res[t].ops) - 1] = "commit"
        /\ res[t].kind = "HTTPException" => sess[t].kind = "none"
        /\ (Done(t) /\ "rollback" \notin req[t].fault) => res[t].kind = "HTTPException"

\* An update whose commit met a storage failure after a field was set, and
\* that ended in the typed error.
C9_Witness ==
    /\ Done("A") /\ req["A"].op = "update"
    /\ res["A"].err.cls = "SQLAlchemyError" /\ res["A"].kind = "HTTPException"
    /\ "qty" \in DOMAIN req["A"].payload.vals
    /\ Some(req["A"].payload.vals["qty"]) # pre["A"][req["A"].id].qty
    /\ db = pre["A"]

\* The create on thread t has returned and no other request has changed the
\* collection meanwhile: against the collection before the request, one
\* record is added and none is changed, and the added one is returned.
C10_Returned(t) ==
    (Done(t) /\ req[t].op = "create" /\ res[t].kind = "return" /\ quiet[t]) =>
        /\ Len(res[t].body) = 1
        /\ res[t].body[1].id \notin DOMAIN pre[t]
        /\ Pk \in DOMAIN req[t].payload.vals =>
              res[t].body[1].id = req[t].payload.vals[Pk]
        /\ DOMAIN db = DOMAIN pre[t] \cup {res[t].body[1].id}
        /\ \A i \in DOMAIN pre[t] : db[i] = pre[t][i]
        /\ res[t].body[1] = RowOf(db, res[t].body[1].id)
        /\ res[t].body[1].name = req[t].payload.vals["name"]
        /\ res[t].body[1].qty = IF "qty" \in DOMAIN req[t].payload.vals
                                THEN Some(req[t].payload.vals["qty"]) ELSE Some(0)

\* The steps of the create on thread t, whatever other requests did: its
\* commit adds one record under a key the table did not hold (the payload's,
\* if it carries one), with the payload's values and the default, and
\* writes no other record; what it returns is the record the table holds
\* under that key when it is read back.
C10_Steps(t) ==
    /\ (Moves(t, "commit", "refresh") /\ req[t].op = "create") =>
          \E k \in DOMAIN db' \ DOMAIN db :
             /\ DOMAIN db' = DOMAIN db \cup {k}
             /\ \A i \in DOMAIN db : db'[i] = db[i]
             /\ Pk \in DOMAIN req[t].payload.vals => k = req[t].payload.vals[Pk]
             /\ db'[k].name = req[t].payload.vals["name"]
             /\ db'[k].qty = IF "qty" \in DOMAIN req[t].payload.vals
                             THEN Some(req[t].payload.vals["qty"]) ELSE Some(0)
             /\ sess'[t].id = k
    /\ (Moves(t, "refresh", "done") /\ req[t].op = "create"
           /\ res'[t].kind = "return") =>
          /\ db' = db
          /\ res'[t].status = 201
          /\ res'[t].body = <<RowOf(db, sess[t].id)>>

\* C10: a successful create adds exactly one record and changes no other;
\* the record has the payload's primary key if the payload carries one, and
\* otherwise a key no record had; it holds the payload's values, with the
\* storage default where the payload has none, and it is what is returned.
C10_CreateAddsOne ==
    /\ [](\A t \in Threads : C10_Returned(t))
    /\ [][\A t \in Threads : C10_Steps(t)]_vars

\* A create without primary key and qty, on a collection that holds records,
\* while another request was waiting to commit.
C10_Witness ==
    /\ Done("A") /\ req["A"].op = "create" /\ res["A"].kind = "return" /\ quiet["A"]
    /\ pc["B"] = "commit"
    /\ DOMAIN pre["A"] # {}
    /\ Pk \notin DOMAIN req["A"].payload.vals
    /\ "qty" \notin DOMAIN req["A"].payload.vals
    /\ res["A"].body[1].id \notin DOMAIN pre["A"]

\* C11: every call of the companion client (get, post, put, delete, of
\* CroutonClient and its awaiting variants and of AsyncCroutonClient) that
\* receives a response returns normally if the status is 2xx (the 201 of
\* create and the empty-bodied 204 of the delete routes included), and
\* otherwise raises the one generic ValueError, which carries the response's
\* status and body text.
C11_ClientSurfacesResponse ==
    call.recv =>
        LET h == HttpResponse(res["A"]) IN
        IF h.status \in 200..299
        THEN call.out.kind = "return"
        ELSE /\ call.out.kind = "ValueError"
             /\ Len(call.out.args) = 1
             /\ call.out.args[1].status = h.status
             /\ call.out.args[1].text = h.text

\* The storage calls of request rq with outcome r that failed, by position
\* in the request's trace: a call a fault struck, a commit that raised, and
\* a DELETE the store refused.
FailedAt(rq, r) ==
    {i \in 1..Len(r.ops) :
        \/ r.ops[i] \in rq.fault
        \/ r.ops[i] = "commit" /\ r.err.cls # "none"
        \/ r.ops[i] = "bulk_delete" /\ r.err.violation = "locked"}

\* C12: no handler retries.  Within one request create, update, delete-one
\* and delete-all call commit at most once; and once a storage call of the
\* request has failed, the handler makes no further storage call but the one
\* rollback that follows a failed commit (no refresh, no second commit), and
\* the request ends in the failure, not in a return.
C12_NoRetry ==
    \A t \in Threads :
    req[t].op \in {"create", "update", "delete_one", "delete_all"} =>
        /\ Cardinality({i \in 1..Len(res[t].ops) : res[t].ops[i] = "commit"}) <= 1
        /\ \A i \in FailedAt(req[t], res[t]) :
              /\ res[t].kind # "return"
              /\ \A j \in (i + 1)..Len(res[t].ops) :
                    j = i + 1 /\ res[t].ops[i] = "commit" /\ res[t].ops[j] = "rollback"

\* A create whose commit met a constraint violation, and whose refresh would
\* have failed too had it been reached: add, commit, rollback and no more.
C12_Witness ==
    /\ Done("A") /\ req["A"].op = "create" /\ req["A"].fault = {"refresh"}
    /\ res["A"].err.cls = "IntegrityError"
    /\ res["A"].ops = <<"add", "commit", "rollback">>
    /\ FailedAt(req["A"], res["A"]) = {2}

====
